---- MODULE Spec2Model ----
(***************************************************************************)
(* Model of BinPacker::Bin (src/src/binpacker.h, src/src/binpacker.cpp):   *)
(* the free-region bookkeeping, the clip scorer, the placement search, the *)
(* split/merge update and the dimension extension.                         *)
(*                                                                         *)
(* Coordinates are C++ unsigned int.  Every subtraction the model performs *)
(* is one whose mathematical result is non-negative in the states reached  *)
(* (regions are valid Rects and a clip is only built for a region that the *)
(* fit test admitted), so the modular results coincide with the integer    *)
(* results computed here.                                                  *)
(***************************************************************************)
EXTENDS Integers, Sequences, FiniteSets

\* ---- bounds of the model ------------------------------------------------
MaxDim == 3      \* dimensions.width and dimensions.height never exceed this
MaxArea == 3     \* largest width/height requested from TryPackArea
MaxCells == 4    \* dimensions.width * dimensions.height never exceeds this
MaxCoord == 3    \* largest coordinate of the Rects handed to GetClipScore alone

\* numeric_limits<int>::max()
IntMax == 2147483647

VARIABLES dimensions,      \* Bin::dimensions
          emptyRegions,    \* Bin::emptyRegions
          lastOp,          \* the public method that ran last
          lastArg,         \* its Area argument
          lastRet,         \* the Rect TryPackArea returned (InvalidRect otherwise)
          prevDimensions,  \* dimensions before the last call
          prevRegions,     \* emptyRegions before the last call
          placed,          \* Rects returned by successful TryPackArea calls, in order
          oneAxis,         \* every ExtendDimensions call so far grew one axis only
          halves,          \* the run of TryPackArea({W, H/2}) calls on a bin that was
                           \* only extended before: [on, rets]
          afterWiden,      \* the call before the last one was ExtendDimensions({w,0}),
                           \* w > 0, on a bin of height 0
          scRegion,        \* GetClipScore called on its own: its region argument,
          scClip,          \* its clip argument,
          scDone,          \* whether it has returned,
          scScore,         \* the value it returned
          scMultiplier     \* and the value of its local "score"

binVars == <<dimensions, emptyRegions, lastOp, lastArg, lastRet,
             prevDimensions, prevRegions, placed, oneAxis, halves, afterWiden>>

scoreVars == <<scRegion, scClip, scDone, scScore, scMultiplier>>

vars == <<binVars, scoreVars>>

\* ---- primitives ---------------------------------------------------------
Rect(l, t, r, b) == [left |-> l, top |-> t, right |-> r, bottom |-> b]

Area(w, h) == [width |-> w, height |-> h]

IsValid(r) == r.left <= r.right /\ r.top <= r.bottom

InvalidRect == Rect(1, 1, 0, 0)

Min(a, b) == IF a < b THEN a ELSE b

Max(a, b) == IF a > b THEN a ELSE b

B2I(b) == IF b THEN 1 ELSE 0

\* ---- scorer -------------------------------------------------------------
\* the six conditional terms of "const int score", in source order
LeftEdgeTerm(region, clip) == B2I(clip.left > region.left /\ clip.left <= region.right)

TopEdgeTerm(region, clip) == B2I(clip.top > region.top /\ clip.top <= region.bottom)

\* RightEdgeTerm mirroring the left-edge test
RightEdgeTermMirrored(region, clip) == B2I(clip.right < region.right /\ clip.right >= region.left)

RightEdgeTerm(region, clip) == B2I(clip.right > region.right /\ clip.right <= region.left)

BottomEdgeTerm(region, clip) == B2I(clip.bottom > region.bottom /\ clip.bottom <= region.top)

FullHeightTerm(region, clip) == B2I(clip.bottom = region.bottom /\ clip.top = region.top)

FullWidthTerm(region, clip) == B2I(clip.left = region.left /\ clip.right = region.right)

\* ScoreMultiplier starting from 1
ScoreMultiplierFromOne(region, clip) ==
    1 + LeftEdgeTerm(region, clip)
      + TopEdgeTerm(region, clip)
      + RightEdgeTerm(region, clip)
      + BottomEdgeTerm(region, clip)
      - FullHeightTerm(region, clip)
      - FullWidthTerm(region, clip)

ScoreMultiplier(region, clip) ==
    2 + LeftEdgeTerm(region, clip)
      + TopEdgeTerm(region, clip)
      + RightEdgeTerm(region, clip)
      + BottomEdgeTerm(region, clip)
      - FullHeightTerm(region, clip)
      - FullWidthTerm(region, clip)

Intersection(region, clip) ==
    Rect(Max(region.left, clip.left), Max(region.top, clip.top),
         Min(region.right, clip.right), Min(region.bottom, clip.bottom))

RectArea(r) == (r.right - r.left + 1) * (r.bottom - r.top + 1)

OutOfBounds(region, clip) ==
    \/ clip.left > region.right \/ clip.right < region.left
    \/ clip.top > region.bottom \/ clip.bottom < region.top

GetClipScore(region, clip) ==
    IF OutOfBounds(region, clip) THEN 0
    ELSE ScoreMultiplier(region, clip)
           * (RectArea(region) - RectArea(Intersection(region, clip)))

\* accumulate(emptyRegions.cbegin(), emptyRegions.cend(), 0, ...)
RECURSIVE Accumulate(_, _, _)
Accumulate(regions, clip, acc) ==
    IF regions = <<>> THEN acc
    ELSE Accumulate(Tail(regions), clip, acc + GetClipScore(Head(regions), clip))

TotalScore(regions, clip) == Accumulate(regions, clip, 0)

\* ---- placement search ---------------------------------------------------
Fits(r, area) ==
    r.right - r.left >= area.width - 1 /\ r.bottom - r.top >= area.height - 1

\* ClipNW one row taller than the area
ClipNWTooTall(r, area) == Rect(r.left, r.top, r.left + area.width - 1, r.top + area.height)

ClipNW(r, area) == Rect(r.left, r.top, r.left + area.width - 1, r.top + area.height - 1)

ClipNE(r, area) == Rect(r.right - area.width + 1, r.top, r.right, r.top + area.height - 1)

ClipSW(r, area) == Rect(r.left, r.bottom - area.height + 1, r.left + area.width - 1, r.bottom)

ClipSE(r, area) == Rect(r.right - area.width + 1, r.bottom - area.height + 1, r.right, r.bottom)

Corners(r, area) == <<ClipNW(r, area), ClipNE(r, area), ClipSW(r, area), ClipSE(r, area)>>

\* the clips one orientation tries, in the order the loops build them
RECURSIVE OrientationClips(_, _)
OrientationClips(regions, area) ==
    IF regions = <<>> THEN <<>>
    ELSE (IF Fits(Head(regions), area) THEN Corners(Head(regions), area) ELSE <<>>)
           \o OrientationClips(Tail(regions), area)

Rotated(area) == Area(area.height, area.width)

ScanOrder(regions, area) ==
    OrientationClips(regions, area) \o OrientationClips(regions, Rotated(area))

\* Search replacing the best clip on an equal score as well
RECURSIVE SearchKeepsLast(_, _, _, _)
SearchKeepsLast(clips, regions, minScore, bestRect) ==
    IF clips = <<>> THEN bestRect
    ELSE LET clip == Head(clips)
             score == TotalScore(regions, clip)
         IN  IF score <= minScore
             THEN IF score = 0 THEN clip
                  ELSE SearchKeepsLast(Tail(clips), regions, score, clip)
             ELSE SearchKeepsLast(Tail(clips), regions, minScore, bestRect)

\* One test "if (score < minScore) { minScore = score; bestRect = clip;
\* if (score==0) break; }" per clip.  The break leaves the region loop, and
\* "if (minScore == 0) break;" then leaves the orientation loop, so a score
\* of 0 ends the whole search.
RECURSIVE Search(_, _, _, _)
Search(clips, regions, minScore, bestRect) ==
    IF clips = <<>> THEN bestRect
    ELSE LET clip == Head(clips)
             score == TotalScore(regions, clip)
         IN  IF score < minScore
             THEN IF score = 0 THEN clip
                  ELSE Search(Tail(clips), regions, score, clip)
             ELSE Search(Tail(clips), regions, minScore, bestRect)

AreaGuard(area, dims) ==
    /\ area.width > 0 /\ area.height > 0
    /\ area.width <= dims.width /\ area.height <= dims.height

BestRect(regions, area) == Search(ScanOrder(regions, area), regions, IntMax, InvalidRect)

\* ---- free-region update -------------------------------------------------
Intersects(clip, r) ==
    /\ clip.left <= r.right /\ clip.top <= r.bottom
    /\ clip.right >= r.left /\ clip.bottom >= r.top

\* Remainders with the left strip ending on the clip's own left column
RemaindersInclusive(r, clip) ==
    (IF clip.left > r.left /\ clip.left <= r.right
       THEN <<Rect(r.left, r.top, clip.left, r.bottom)>> ELSE <<>>)
    \o (IF clip.top > r.top /\ clip.top <= r.bottom
       THEN <<Rect(r.left, r.top, r.right, clip.top - 1)>> ELSE <<>>)
    \o (IF clip.right < r.right /\ clip.right >= r.left
       THEN <<Rect(clip.right + 1, r.top, r.right, r.bottom)>> ELSE <<>>)
    \o (IF clip.bottom < r.bottom /\ clip.bottom >= r.top
       THEN <<Rect(r.left, clip.bottom + 1, r.right, r.bottom)>> ELSE <<>>)

\* Remainders without the bottom strip
RemaindersNoBottom(r, clip) ==
    (IF clip.left > r.left /\ clip.left <= r.right
       THEN <<Rect(r.left, r.top, clip.left - 1, r.bottom)>> ELSE <<>>)
    \o (IF clip.top > r.top /\ clip.top <= r.bottom
       THEN <<Rect(r.left, r.top, r.right, clip.top - 1)>> ELSE <<>>)
    \o (IF clip.right < r.right /\ clip.right >= r.left
       THEN <<Rect(clip.right + 1, r.top, r.right, r.bottom)>> ELSE <<>>)

\* the remainder rectangles one clipped region stages, in emplace_back order
Remainders(r, clip) ==
    (IF clip.left > r.left /\ clip.left <= r.right
       THEN <<Rect(r.left, r.top, clip.left - 1, r.bottom)>> ELSE <<>>)
    \o (IF clip.top > r.top /\ clip.top <= r.bottom
       THEN <<Rect(r.left, r.top, r.right, clip.top - 1)>> ELSE <<>>)
    \o (IF clip.right < r.right /\ clip.right >= r.left
       THEN <<Rect(clip.right + 1, r.top, r.right, r.bottom)>> ELSE <<>>)
    \o (IF clip.bottom < r.bottom /\ clip.bottom >= r.top
       THEN <<Rect(r.left, clip.bottom + 1, r.right, r.bottom)>> ELSE <<>>)

\* KeptRegions erasing a region only when it is not wholly covered by the clip
RECURSIVE KeptRegionsKeepsCovered(_, _)
KeptRegionsKeepsCovered(regions, clip) ==
    IF regions = <<>> THEN <<>>
    ELSE (IF Intersects(clip, Head(regions)) /\ Intersection(Head(regions), clip) # Head(regions)
            THEN <<>> ELSE <<Head(regions)>>)
           \o KeptRegionsKeepsCovered(Tail(regions), clip)

\* the regions the erase loop leaves in emptyRegions
RECURSIVE KeptRegions(_, _)
KeptRegions(regions, clip) ==
    IF regions = <<>> THEN <<>>
    ELSE (IF Intersects(clip, Head(regions)) THEN <<>> ELSE <<Head(regions)>>)
           \o KeptRegions(Tail(regions), clip)

\* emptyRegionsToInsert after the erase loop
RECURSIVE RegionsToInsert(_, _)
RegionsToInsert(regions, clip) ==
    IF regions = <<>> THEN <<>>
    ELSE (IF Intersects(clip, Head(regions)) THEN Remainders(Head(regions), clip) ELSE <<>>)
           \o RegionsToInsert(Tail(regions), clip)

\* CanMerge without the tests that the two rectangles share a pair of edges
CanMergeAnyOverlap(newRegion, r) ==
    \/ /\ newRegion.top <= r.bottom /\ newRegion.bottom >= r.top
       /\ newRegion.left <= r.right /\ newRegion.right >= r.left

CanMerge(newRegion, r) ==
    \/ /\ newRegion.left = r.left /\ newRegion.right = r.right
       /\ newRegion.top <= r.bottom /\ newRegion.bottom >= r.top
    \/ /\ newRegion.top = r.top /\ newRegion.bottom = r.bottom
       /\ newRegion.left <= r.right /\ newRegion.right >= r.left

\* find_if: index of the first region the predicate accepts, 0 for end()
FindMerge(regions, newRegion) ==
    IF \E i \in 1..Len(regions) : CanMerge(newRegion, regions[i])
    THEN CHOOSE i \in 1..Len(regions) :
            /\ CanMerge(newRegion, regions[i])
            /\ \A j \in 1..(i - 1) : ~CanMerge(newRegion, regions[j])
    ELSE 0

Merged(r, newRegion) ==
    Rect(Min(r.left, newRegion.left), Min(r.top, newRegion.top),
         Max(r.right, newRegion.right), Max(r.bottom, newRegion.bottom))

Erase(seq, i) == SubSeq(seq, 1, i - 1) \o SubSeq(seq, i + 1, Len(seq))

InsertAt(seq, i, x) == SubSeq(seq, 1, i - 1) \o <<x>> \o SubSeq(seq, i, Len(seq))

\* the comparator handed to upper_bound
OriginLess(a, b) == a.left * a.top < b.left * b.top

\* std::upper_bound as the standard libraries implement it: a binary search
\* over [first, first+len) that halves the range on comp(value, *mid).  The
\* result is the 1-based index to insert before.
RECURSIVE UpperBound(_, _, _, _)
UpperBound(seq, value, first, len) ==
    IF len <= 0 THEN first
    ELSE LET half == len \div 2
             mid == first + half
         IN  IF OriginLess(value, seq[mid])
             THEN UpperBound(seq, value, first, half)
             ELSE UpperBound(seq, value, mid + 1, len - half - 1)

\* one turn of "for (auto newRegion : emptyRegionsToInsert)"
MergeInsert(regions, newRegion) ==
    LET i == FindMerge(regions, newRegion)
        region == IF i # 0 THEN Merged(regions[i], newRegion) ELSE newRegion
        rest == IF i # 0 THEN Erase(regions, i) ELSE regions
    IN  InsertAt(rest, UpperBound(rest, region, 1, Len(rest)), region)

RECURSIVE InsertAll(_, _)
InsertAll(regions, toInsert) ==
    IF toInsert = <<>> THEN regions
    ELSE InsertAll(MergeInsert(regions, Head(toInsert)), Tail(toInsert))

ApplyClip(regions, clip) ==
    InsertAll(KeptRegions(regions, clip), RegionsToInsert(regions, clip))

\* ---- dimension extension ------------------------------------------------
\* the find_if predicates of the width and of the height half
SpansHeight(r, rightEdge, bottomEdge) ==
    r.right = rightEdge /\ r.bottom - r.top = bottomEdge

SpansWidth(r, rightEdge, bottomEdge) ==
    r.bottom = bottomEdge /\ r.right - r.left = rightEdge

\* find_if: index of the first region the predicate accepts, 0 for end()
FindSpansHeight(regions, rightEdge, bottomEdge) ==
    IF \E i \in 1..Len(regions) : SpansHeight(regions[i], rightEdge, bottomEdge)
    THEN CHOOSE i \in 1..Len(regions) :
            /\ SpansHeight(regions[i], rightEdge, bottomEdge)
            /\ \A j \in 1..(i - 1) : ~SpansHeight(regions[j], rightEdge, bottomEdge)
    ELSE 0

FindSpansWidth(regions, rightEdge, bottomEdge) ==
    IF \E i \in 1..Len(regions) : SpansWidth(regions[i], rightEdge, bottomEdge)
    THEN CHOOSE i \in 1..Len(regions) :
            /\ SpansWidth(regions[i], rightEdge, bottomEdge)
            /\ \A j \in 1..(i - 1) : ~SpansWidth(regions[j], rightEdge, bottomEdge)
    ELSE 0

\* RightEdge taking the width itself for the last column
RightEdgeIsWidth(dims) == dims.width

RightEdge(dims) == IF dims.width > 0 THEN dims.width - 1 ELSE 0

BottomEdge(dims) == IF dims.height > 0 THEN dims.height - 1 ELSE 0

\* the width half of ExtendDimensions
ExtendWidth(regions, dims, extension) ==
    LET rightEdge == RightEdge(dims)
        bottomEdge == BottomEdge(dims)
        i == FindSpansHeight(regions, rightEdge, bottomEdge)
    IN  IF extension.width > 0 /\ dims.height > 0
        THEN IF i # 0
             THEN [regions EXCEPT ![i].right = @ + extension.width]
             ELSE [k \in 1..Len(regions) |->
                     IF regions[k].right = rightEdge
                     THEN [regions[k] EXCEPT !.right = @ + extension.width]
                     ELSE regions[k]]
                  \o <<Rect(dims.width, 0, dims.width + extension.width - 1, bottomEdge)>>
        ELSE regions

\* ExtendHeight putting the new bottom region in front of the others
ExtendHeightNewFirst(regions, dims, rightEdge, extension) ==
    LET bottomEdge == BottomEdge(dims)
        i == FindSpansWidth(regions, rightEdge, bottomEdge)
    IN  IF extension.height > 0 /\ dims.width > 0
        THEN IF i # 0
             THEN [regions EXCEPT ![i].bottom = @ + extension.height]
             ELSE <<Rect(0, dims.height, rightEdge, dims.height + extension.height - 1)>>
                  \o [k \in 1..Len(regions) |->
                        IF regions[k].bottom = bottomEdge
                        THEN [regions[k] EXCEPT !.bottom = @ + extension.height]
                        ELSE regions[k]]
        ELSE regions

\* the height half; dims carries the width already increased, rightEdge is
\* the local the code increased by extension.width
ExtendHeight(regions, dims, rightEdge, extension) ==
    LET bottomEdge == BottomEdge(dims)
        i == FindSpansWidth(regions, rightEdge, bottomEdge)
    IN  IF extension.height > 0 /\ dims.width > 0
        THEN IF i # 0
             THEN [regions EXCEPT ![i].bottom = @ + extension.height]
             ELSE [k \in 1..Len(regions) |->
                     IF regions[k].bottom = bottomEdge
                     THEN [regions[k] EXCEPT !.bottom = @ + extension.height]
                     ELSE regions[k]]
                  \o <<Rect(0, dims.height, rightEdge, dims.height + extension.height - 1)>>
        ELSE regions

ExtendedRegions(regions, dims, extension) ==
    ExtendHeight(ExtendWidth(regions, dims, extension),
                 Area(dims.width + extension.width, dims.height),
                 RightEdge(dims) + extension.width,
                 extension)

\* ---- the Bin as a state machine -----------------------------------------
InitBin ==
    /\ dimensions = Area(0, 0)
    /\ emptyRegions = <<>>
    /\ lastOp = "new"
    /\ lastArg = Area(0, 0)
    /\ lastRet = InvalidRect
    /\ prevDimensions = Area(0, 0)
    /\ prevRegions = <<>>
    /\ placed = <<>>
    /\ oneAxis = TRUE
    /\ halves = [on |-> TRUE, rets |-> <<>>]
    /\ afterWiden = FALSE

\* no GetClipScore call of its own is under way
ScoreIdle ==
    /\ scRegion = Rect(0, 0, 0, 0)
    /\ scClip = Rect(0, 0, 0, 0)
    /\ scDone = FALSE
    /\ scScore = 0
    /\ scMultiplier = 0

Init == InitBin /\ ScoreIdle

\* the last call was ExtendDimensions({w,0}), w > 0, on a bin of height 0
LastWasWiden ==
    /\ lastOp = "ExtendDimensions"
    /\ lastArg.width > 0 /\ lastArg.height = 0
    /\ prevDimensions.height = 0

\* whether area is {W, H/2} for the current W x H bin, W > 0, H > 0 even
IsHalf(area, dims) ==
    /\ dims.width > 0 /\ dims.height > 0 /\ dims.height % 2 = 0
    /\ area = Area(dims.width, dims.height \div 2)

HalvesOff == [on |-> FALSE, rets |-> <<>>]

TryPackArea(area) ==
    LET searched == AreaGuard(area, dimensions)
        bestRect == IF searched THEN BestRect(emptyRegions, area) ELSE InvalidRect
        applied == searched /\ IsValid(bestRect)
        ret == IF applied THEN bestRect ELSE InvalidRect
    IN  /\ lastOp' = "TryPackArea"
        /\ lastArg' = area
        /\ prevDimensions' = dimensions
        /\ prevRegions' = emptyRegions
        /\ lastRet' = ret
        /\ dimensions' = dimensions
        /\ IF applied
           THEN /\ emptyRegions' = ApplyClip(emptyRegions, bestRect)
                /\ placed' = Append(placed, ret)
           ELSE UNCHANGED <<emptyRegions, placed>>
        /\ UNCHANGED oneAxis
        /\ afterWiden' = LastWasWiden
        /\ UNCHANGED scoreVars
        /\ halves' = IF halves.on /\ IsHalf(area, dimensions) /\ Len(halves.rets) < 3
                      THEN [halves EXCEPT !.rets = Append(@, ret)]
                      ELSE HalvesOff

ExtendDimensions(extension) ==
    /\ dimensions.width + extension.width <= MaxDim
    /\ dimensions.height + extension.height <= MaxDim
    /\ (dimensions.width + extension.width) * (dimensions.height + extension.height) <= MaxCells
    /\ lastOp' = "ExtendDimensions"
    /\ lastArg' = extension
    /\ prevDimensions' = dimensions
    /\ prevRegions' = emptyRegions
    /\ lastRet' = InvalidRect
    /\ emptyRegions' = ExtendedRegions(emptyRegions, dimensions, extension)
    /\ dimensions' = Area(dimensions.width + extension.width,
                          dimensions.height + extension.height)
    /\ UNCHANGED placed
    /\ oneAxis' = (oneAxis /\ (extension.width = 0 \/ extension.height = 0))
    /\ halves' = IF halves.on /\ halves.rets = <<>> THEN halves ELSE HalvesOff
    /\ afterWiden' = LastWasWiden
    /\ UNCHANGED scoreVars

Next ==
    \/ \E w \in 0..MaxArea, h \in 0..MaxArea : TryPackArea(Area(w, h))
    \/ \E w \in 0..MaxDim, h \in 0..MaxDim : ExtendDimensions(Area(w, h))

Spec == Init /\ [][Next]_vars

\* ---- GetClipScore on its own --------------------------------------------
Coords == 0..MaxCoord

AllRects == [left : Coords, top : Coords, right : Coords, bottom : Coords]

ValidRects == {r \in AllRects : IsValid(r)}

InitScore ==
    /\ InitBin
    /\ scRegion \in ValidRects
    /\ scClip \in AllRects
    /\ scDone = FALSE
    /\ scScore = 0
    /\ scMultiplier = 0

CallGetClipScore ==
    /\ ~scDone
    /\ scDone' = TRUE
    /\ scScore' = GetClipScore(scRegion, scClip)
    /\ scMultiplier' = ScoreMultiplier(scRegion, scClip)
    /\ UNCHANGED <<scRegion, scClip, binVars>>

NextScore == CallGetClipScore

SpecScore == InitScore /\ [][NextScore]_vars

TypeOK ==
    /\ dimensions \in [width : 0..MaxDim, height : 0..MaxDim]
    /\ \A i \in 1..Len(emptyRegions) : IsValid(emptyRegions[i])

\* ---- cells --------------------------------------------------------------
Cells(r) == (r.left..r.right) \X (r.top..r.bottom)

BinCells(dims) == (0..(dims.width - 1)) \X (0..(dims.height - 1))

FreeCells(regions) == UNION {Cells(regions[i]) : i \in 1..Len(regions)}

PlacedCells == UNION {Cells(placed[i]) : i \in 1..Len(placed)}

RECURSIVE SumAreas(_)
SumAreas(rects) == IF rects = <<>> THEN 0 ELSE RectArea(Head(rects)) + SumAreas(Tail(rects))

Overlap(a, b) == Cells(a) \cap Cells(b) # {}

Packed == lastOp = "TryPackArea" /\ IsValid(lastRet)

\* ---- properties ---------------------------------------------------------

C2_RegionsInsideBin ==
    \A i \in 1..Len(emptyRegions) :
        /\ emptyRegions[i].right < dimensions.width
        /\ emptyRegions[i].bottom < dimensions.height

\* C3: every valid Rect TryPackArea returns lies inside the bin's rectangle
\* at the time of the call.
C3_PlacementInsideBin ==
    Packed => lastRet.right < prevDimensions.width /\ lastRet.bottom < prevDimensions.height

\* C4: a TryPackArea call leaves dimensions and the free-region sequence
\* unchanged exactly when it returns an invalid Rect, and a call with a zero
\* or too large width or height returns {1,1,0,0} and changes nothing.
C4_UnchangedIffInvalid ==
    lastOp = "TryPackArea" =>
        /\ (dimensions = prevDimensions /\ emptyRegions = prevRegions) <=> ~IsValid(lastRet)
        /\ (\/ lastArg.width = 0 \/ lastArg.height = 0
            \/ lastArg.width > prevDimensions.width
            \/ lastArg.height > prevDimensions.height)
           => /\ lastRet = InvalidRect
              /\ dimensions = prevDimensions /\ emptyRegions = prevRegions

\* a call that asked for more than the bin's height failed on a bin that has
\* free space, after an earlier placement succeeded
C4_Witness ==
    /\ lastOp = "TryPackArea" /\ ~IsValid(lastRet)
    /\ lastArg.width > 0 /\ lastArg.height > prevDimensions.height
    /\ emptyRegions # <<>> /\ placed # <<>>

C6_FreshExtend ==
    /\ lastOp = "ExtendDimensions"
    /\ prevDimensions = Area(0, 0) /\ prevRegions = <<>>
    /\ lastArg.width > 0 /\ lastArg.height > 0
    => /\ dimensions = lastArg
       /\ emptyRegions = <<Rect(0, 0, lastArg.width - 1, lastArg.height - 1)>>

\* C7: while no TryPackArea call has succeeded, the free regions cover
\* exactly the cells of the bin's rectangle.
C7_UnpackedCoversBin ==
    placed = <<>> => FreeCells(emptyRegions) = BinCells(dimensions)

\* C8: TryPackArea with a positive width and height fails only when no free
\* region can hold the area as given or rotated.  It is stated for the bins
\* that were grown one axis at a time, where every free region lies inside
\* the bin.
C8_FailsOnlyIfNothingFits ==
    /\ oneAxis
    /\ lastOp = "TryPackArea" /\ ~IsValid(lastRet)
    /\ lastArg.width > 0 /\ lastArg.height > 0
    => \A i \in 1..Len(prevRegions) :
          ~Fits(prevRegions[i], lastArg) /\ ~Fits(prevRegions[i], Rotated(lastArg))

\* C9: after a successful TryPackArea no free region intersects the returned
\* clip, the free cells are the earlier free cells minus the clip's cells,
\* and the dimensions are unchanged.
C9_ClipRemovedExactly ==
    Packed =>
        /\ \A i \in 1..Len(emptyRegions) : ~Intersects(lastRet, emptyRegions[i])
        /\ FreeCells(emptyRegions) = FreeCells(prevRegions) \ Cells(lastRet)
        /\ dimensions = prevDimensions

\* a successful placement that clipped two regions at once and left free
\* space behind
C9_Witness ==
    /\ Packed
    /\ \E i, j \in 1..Len(prevRegions) :
          i # j /\ Intersects(lastRet, prevRegions[i]) /\ Intersects(lastRet, prevRegions[j])
    /\ emptyRegions # <<>>

\* C10: on a W x H bin (H even) that was only extended, the first two
\* TryPackArea({W, H/2}) calls succeed with disjoint rectangles that cover
\* the bin, and the third returns the invalid Rect and changes nothing.
C10_TwoHalvesFillBin ==
    /\ (halves.on /\ Len(halves.rets) >= 1 => IsValid(halves.rets[1]))
    /\ (halves.on /\ Len(halves.rets) >= 2 =>
          /\ IsValid(halves.rets[2])
          /\ ~Overlap(halves.rets[1], halves.rets[2])
          /\ Cells(halves.rets[1]) \cup Cells(halves.rets[2]) = BinCells(dimensions))
    /\ (halves.on /\ Len(halves.rets) = 3 =>
          /\ ~IsValid(halves.rets[3])
          /\ dimensions = prevDimensions /\ emptyRegions = prevRegions)

\* C11: on a bin of height 0, ExtendDimensions({w,0}) with w > 0 adds w to
\* dimensions.width and adds no free region; an ExtendDimensions({0,h}) with
\* h > 0 right after it leaves exactly one free region, the full bin
\* rectangle {0,0,dimensions.width-1,h-1}.
C11_WidenThenHeighten ==
    /\ LastWasWiden =>
          /\ dimensions = Area(prevDimensions.width + lastArg.width, 0)
          /\ emptyRegions = prevRegions /\ emptyRegions = <<>>
    /\ (/\ afterWiden /\ lastOp = "ExtendDimensions"
        /\ lastArg.width = 0 /\ lastArg.height > 0)
       => /\ dimensions = Area(prevDimensions.width, lastArg.height)
          /\ emptyRegions = <<Rect(0, 0, dimensions.width - 1, lastArg.height - 1)>>

\* ExtendDimensions({0,h}), h > 0, has run right after an ExtendDimensions
\* ({w,0}) that widened a bin of height 0 to two columns or more
C11_Witness ==
    /\ afterWiden /\ lastOp = "ExtendDimensions"
    /\ lastArg.width = 0 /\ lastArg.height > 0
    /\ dimensions.width >= 2 /\ emptyRegions # <<>>

\* C12: ExtendDimensions keeps every free region at its index with the same
\* left and top and with right and bottom not smaller, appends whatever it
\* adds, and grows the dimensions by exactly the extension.
C12_ExtendKeepsRegions ==
    lastOp = "ExtendDimensions" =>
        /\ Len(emptyRegions) >= Len(prevRegions)
        /\ \A i \in 1..Len(prevRegions) :
              /\ emptyRegions[i].left = prevRegions[i].left
              /\ emptyRegions[i].top = prevRegions[i].top
              /\ emptyRegions[i].right >= prevRegions[i].right
              /\ emptyRegions[i].bottom >= prevRegions[i].bottom
        /\ dimensions = Area(prevDimensions.width + lastArg.width,
                             prevDimensions.height + lastArg.height)

\* an extension of a bin with free regions that stretched one of them and
\* appended a new one
C12_Witness ==
    /\ lastOp = "ExtendDimensions" /\ prevRegions # <<>>
    /\ Len(emptyRegions) > Len(prevRegions)
    /\ \E i \in 1..Len(prevRegions) : emptyRegions[i] # prevRegions[i]

\* C13: the Rects returned by successful TryPackArea calls on one Bin are
\* pairwise non-overlapping: no cell is handed out twice.
C13_PlacementsDisjoint ==
    \A i, j \in 1..Len(placed) : i # j => ~Overlap(placed[i], placed[j])

\* the candidates of a request: both orientations, every region that is large
\* enough for the orientation, the four corner anchors
CandidateSet(regions, area) ==
    UNION {{Corners(regions[i], o)[c] : c \in 1..4} :
             <<o, i>> \in {oi \in {area, Rotated(area)} \X (1..Len(regions)) :
                              Fits(regions[oi[2]], oi[1])}}

\* a candidate's cost: the sum of GetClipScore over every free region
Cost(regions, clip) == TotalScore(regions, clip)

MinCost(regions, area) ==
    CHOOSE m \in {Cost(regions, c) : c \in CandidateSet(regions, area)} :
        \A c \in CandidateSet(regions, area) : m <= Cost(regions, c)

\* C14: a successful TryPackArea returns a candidate of minimum total cost
\* among all candidates, and among the candidates of that cost the first one
\* in scan order (orientation as given, then rotated; region order; NW, NE,
\* SW, SE).
C14_FirstMinimumCost ==
    Packed =>
        LET scan == ScanOrder(prevRegions, lastArg)
            m == MinCost(prevRegions, lastArg)
            first == CHOOSE k \in 1..Len(scan) :
                        /\ Cost(prevRegions, scan[k]) = m
                        /\ \A j \in 1..(k - 1) : Cost(prevRegions, scan[j]) # m
        IN  /\ lastRet \in CandidateSet(prevRegions, lastArg)
            /\ {scan[k] : k \in 1..Len(scan)} = CandidateSet(prevRegions, lastArg)
            /\ Cost(prevRegions, lastRet) = m
            /\ lastRet = scan[first]

\* a successful placement chosen without a cost of 0, with a dearer candidate
\* before it in scan order and a different candidate of the same cost after it
C14_Witness ==
    /\ Packed
    /\ Cost(prevRegions, lastRet) > 0
    /\ LET scan == ScanOrder(prevRegions, lastArg)
       IN  \E j, k, l \in 1..Len(scan) :
              /\ j < k /\ k < l /\ scan[k] = lastRet
              /\ \A i \in 1..(k - 1) : scan[i] # lastRet
              /\ Cost(prevRegions, scan[j]) > Cost(prevRegions, lastRet)
              /\ Cost(prevRegions, scan[l]) = Cost(prevRegions, lastRet)
              /\ scan[l] # lastRet

\* C15: the free-region sequence is ordered by non-decreasing left * top.
C15_SortedByOrigin ==
    \A i \in 1..(Len(emptyRegions) - 1) :
        emptyRegions[i].left * emptyRegions[i].top
          <= emptyRegions[i + 1].left * emptyRegions[i + 1].top

\* C16: a valid Rect returned by TryPackArea(area) has the area's width and
\* height, as given or swapped, lay inside one single free region of the
\* state before the call, and shares a corner with that region.
C16_ClipInOneRegionCorner ==
    Packed =>
        /\ LET size == Area(lastRet.right - lastRet.left + 1,
                            lastRet.bottom - lastRet.top + 1)
           IN  size = lastArg \/ size = Rotated(lastArg)
        /\ \E i \in 1..Len(prevRegions) :
              /\ Cells(lastRet) \subseteq Cells(prevRegions[i])
              /\ lastRet.left = prevRegions[i].left \/ lastRet.right = prevRegions[i].right
              /\ lastRet.top = prevRegions[i].top \/ lastRet.bottom = prevRegions[i].bottom

\* a successful placement of a non-square area, rotated, in a bin that holds
\* several free regions, smaller than the region it was cut from
C16_Witness ==
    /\ Packed
    /\ lastArg.width # lastArg.height
    /\ Area(lastRet.right - lastRet.left + 1, lastRet.bottom - lastRet.top + 1)
         = Rotated(lastArg)
    /\ Len(prevRegions) >= 2
    /\ \A i \in 1..Len(prevRegions) : prevRegions[i] # lastRet

\* C17: for a valid region and a valid clip GetClipScore is never negative,
\* and it is 0 exactly when the clip shares no cell with the region or covers
\* every cell of it.
C17_ScoreZeroIffDisjointOrCovered ==
    scDone /\ IsValid(scClip) =>
        /\ scScore >= 0
        /\ scScore = 0 <=> \/ Cells(scClip) \cap Cells(scRegion) = {}
                           \/ Cells(scRegion) \subseteq Cells(scClip)

\* GetClipScore returned 0 for a clip that covers the region and is larger
\* than it
C17_Witness ==
    /\ scDone /\ IsValid(scClip) /\ scScore = 0
    /\ Cells(scRegion) \subseteq Cells(scClip) /\ scClip # scRegion

\* C18: for a valid region and a clip that intersects it, the clip.right and
\* clip.bottom terms are 0, so the multiplier is 2 + [clip.left > region.left]
\* + [clip.top > region.top] - [clip spans the full height] - [clip spans the
\* full width], and lies in 0..4.
C18_RightBottomTermsVanish ==
    scDone /\ ~OutOfBounds(scRegion, scClip) =>
        /\ RightEdgeTerm(scRegion, scClip) = 0
        /\ BottomEdgeTerm(scRegion, scClip) = 0
        /\ scMultiplier = 2 + B2I(scClip.left > scRegion.left)
                            + B2I(scClip.top > scRegion.top)
                            - B2I(scClip.top = scRegion.top /\ scClip.bottom = scRegion.bottom)
                            - B2I(scClip.left = scRegion.left /\ scClip.right = scRegion.right)
        /\ scMultiplier \in 0..4

\* GetClipScore ran on a clip that ends inside the region on the right and at
\* the bottom and starts inside it on the left and at the top
C18_Witness ==
    /\ scDone /\ ~OutOfBounds(scRegion, scClip)
    /\ scClip.right < scRegion.right /\ scClip.right >= scRegion.left
    /\ scClip.bottom < scRegion.bottom /\ scClip.bottom >= scRegion.top
    /\ scMultiplier = 4
====
